---- MODULE Spec2Model ----
(***************************************************************************)
(* The background worker of foxbot: the channel_update pipeline            *)
(* (process_channel_update, already_had_source, has_similar_hash) and the  *)
(* channel_edit scheduler (process_channel_edit), run by concurrent        *)
(* workers over one job queue, one Redis store and one site-loader lock.   *)
(***************************************************************************)
EXTENDS Bags, FiniteSets, Integers, Sequences, TLC

VARIABLES
    now,            \* wall clock, seconds (chrono::offset::Utc::now)
    group_sources,  \* Redis: members of the set stored under each group key
    group_expire,   \* Redis: instant at which each group key expires, or None
    retry_at_key,   \* Redis: the backoff marker stored for each chat, or None
    queue,          \* Faktory: bag of pending jobs
    worker,         \* per worker: the job it runs, its position and its locals (found:
                    \* the matcher's answer)
    sites,          \* handler.sites: the worker holding the mutex, or None
    requests,       \* platform requests issued so far
    last,           \* the run that returned most recently: [kind, id, path, result, ..]
    calls,          \* per group key: the set-adds made during the key's current life
    retries,        \* job failures the queue has retried so far
    rate_limits,    \* rate-limit answers the platform has given so far
    lost,           \* messages whose URLs a failed run added, with no edit job enqueued since
    probe,          \* one call of a function made apart from any job: its arguments and,
                    \* once it is made, its result
    inkbunny        \* the Inkbunny loader: its cached session id and the call in progress

vars == <<now, group_sources, group_expire, retry_at_key, queue, worker, sites,
          requests, last, calls, retries, rate_limits, lost, probe,
          inkbunny>>

None == -1
NoGroup == "none"

----------------------------------------------------------------------------
(* Bounds of the model *)

MaxTime == 300
MaxRetries == 1
MaxRateLimits == 2
MaxCandidates == 3
MaxMatches == 3
MaxFirsts == 4

TickSteps == {150}
RetryAfters == {150}
Workers == {"w1", "w2"}

\* the workers are interchangeable: of the idle ones, the first takes the next job
WorkerRank(w) == IF w = "w1" THEN 1 ELSE 2

----------------------------------------------------------------------------
(* Program constants *)

GroupTTL == 300
MaxDistance == 3
MissingDistance == 10
SimilarDistance == 3

----------------------------------------------------------------------------
(* Sequence helpers *)

SeqToSet(s) == {s[i] : i \in DOMAIN s}

RECURSIVE InsertSorted(_, _)
InsertSorted(x, s) ==
    IF s = <<>> THEN <<x>>
    ELSE IF x <= Head(s) THEN <<x>> \o s
    ELSE <<Head(s)>> \o InsertSorted(x, Tail(s))

\* Vec::sort on the URL list
RECURSIVE SortUrls(_)
SortUrls(s) == IF s = <<>> THEN <<>> ELSE InsertSorted(Head(s), SortUrls(Tail(s)))

\* Vec::dedup keeps every element that differs from its predecessor
RECURSIVE Dedup(_)
Dedup(s) ==
    IF Len(s) <= 1 THEN s
    ELSE IF s[1] = s[2] THEN Dedup(Tail(s))
    ELSE <<Head(s)>> \o Dedup(Tail(s))

RECURSIVE SelectIdx(_, _, _)
SelectIdx(s, keep(_), i) ==
    IF i > Len(s) THEN <<>>
    ELSE (IF keep(s[i]) THEN <<s[i]>> ELSE <<>>) \o SelectIdx(s, keep, i + 1)

----------------------------------------------------------------------------
(* Inputs: channel posts and what the external services answer for them.   *)
(* A URL is a number standing for its place in the string order of the     *)
(* canonical URLs; a fingerprint is the set of its bits that are set.      *)

File(site, url, distance) == [site |-> site, url |-> url, distance |-> distance]

Fetched(url, fetch, hash) == [url |-> url, fetch |-> fetch, hash |-> hash]

Message(id, chat, group, photo, links, found, resolved) ==
    [message_id |-> id, chat_id |-> chat, media_group_id |-> group, photo |-> photo,
     links |-> links, hash |-> {1, 2}, found |-> found, resolved |-> resolved]

Posts ==
    { Message(1, "c1", "g1", "sizes", <<>>,
              <<File("FurAffinity", 1, 1), File("e621", 2, 2)>>, <<>>),
      Message(2, "c1", "g1", "sizes", <<>>,
              <<File("e621", 5, 2), File("FurAffinity", 3, 0), File("FurAffinity", 1, 1),
                File("FurAffinity", 3, 1), File("Weasyl", 4, 5)>>, <<>>),
      Message(3, "c1", "g2", "sizes", <<>>,
              <<File("FurAffinity", 1, 1)>>, <<>>),
      Message(4, "c2", NoGroup, "sizes", <<>>,
              <<File("e621", 2, None), File("FurAffinity", 1, 3)>>, <<>>),
      Message(5, "c1", "g1", "sizes", <<>>,
              <<File("FurAffinity", 3, 1)>>, <<>>),
      Message(6, "c2", NoGroup, "sizes", <<9>>,
              <<File("FurAffinity", 1, 2)>>,
              <<Fetched(9, "failed", {}), Fetched(9, "timeout", {}),
                Fetched(9, "ok", {1, 2, 3, 4, 5, 6})>>),
      Message(7, "c2", "g2", "sizes", <<8, 1>>,
              <<File("FurAffinity", 1, 2)>>, <<>>),
      Message(8, "c2", NoGroup, "sizes", <<9>>,
              <<File("FurAffinity", 1, 2)>>,
              <<Fetched(9, "timeout", {}), Fetched(9, "undecodable", {}),
                Fetched(9, "ok", {1, 2, 3})>>),
      Message(9, "c2", NoGroup, "none", <<>>, <<>>, <<>>),
      Message(10, "c2", NoGroup, "empty", <<>>, <<>>, <<>>),
      Message(11, "c2", "g2", "sizes", <<>>,
              <<File("Weasyl", 4, 4), File("e621", 2, None)>>, <<>>) }

Groups == {"g1", "g2"}
Chats == {"c1", "c2"}

----------------------------------------------------------------------------
(* process_channel_update: the pure parts *)

UnwrapOrZero(x, default) == IF x = None THEN 0 ELSE x

\* Option::unwrap_or
UnwrapOr(x, default) == IF x = None THEN default ELSE x

KeepMatchAny(m) == TRUE

KeepMatch(m) == UnwrapOr(m.distance, MissingDistance) <= MaxDistance

\* matches.retain(|m| m.distance.unwrap_or(10) <= 3)
Retain(found) == SelectIdx(found, KeepMatch, 1)

Matches(message) == Retain(message.found)

\* what a call of the matcher may come to
MatcherOutcomes == {"ok", "timeout", "error"}

\* match_image(.., file, Some(3)): the candidates of the search; a search that times out
\* counts as one that found nothing, a backend failure is an error
MatchImage(message, outcome) ==
    IF outcome = "error" THEN [result |-> "Err", matches |-> <<>>]
    ELSE IF outcome = "timeout" THEN [result |-> "Ok", matches |-> <<>>]
    ELSE [result |-> "Ok", matches |-> message.found]

\* find_best_photo(sizes): the largest size, none for an empty list
FindBestPhoto(photo) == IF photo = "sizes" THEN "best" ELSE "nothing"

\* extract_links(&message)
ExtractLinks(message) == message.links

\* link_was_seen(&sites, &links, &file.url())
LinkWasSeen(links, url) == \E i \in DOMAIN links : links[i] = url

SelfSourcedFirstLink(message) ==
    \E i \in DOMAIN Matches(message) :
        /\ ExtractLinks(message) # <<>>
        /\ ExtractLinks(message)[1] = Matches(message)[i].url

\* matches.iter().any(|file| link_was_seen(&sites, &links, &file.url()))
SelfSourced(message) ==
    \E i \in DOMAIN Matches(message) :
        LinkWasSeen(ExtractLinks(message), Matches(message)[i].url)

\* hamming::distance_fast over the fingerprint bytes
Hamming(a, b) == Cardinality((a \ b) \cup (b \ a))

HasSimilarHashAnyBytes(to, candidates) ==
    \E i \in DOMAIN candidates : Hamming(to, candidates[i].hash) <= SimilarDistance

HasSimilarHashAborts(to, candidates) ==
    /\ \A i \in DOMAIN candidates : candidates[i].fetch = "ok"
    /\ \E i \in DOMAIN candidates : Hamming(to, candidates[i].hash) <= SimilarDistance

\* has_similar_hash: candidates in order, a failed download or decode is skipped
RECURSIVE HasSimilarHash(_, _)
HasSimilarHash(to, candidates) ==
    IF candidates = <<>> THEN FALSE
    ELSE IF Head(candidates).fetch # "ok" THEN HasSimilarHash(to, Tail(candidates))
    ELSE IF Hamming(to, Head(candidates).hash) <= SimilarDistance THEN TRUE
    ELSE HasSimilarHash(to, Tail(candidates))

RECURSIVE SimilarScanAll(_, _, _)
SimilarScanAll(to, candidates, i) ==
    IF i > Len(candidates) THEN [hit |-> FALSE, downloaded |-> <<>>, hashed |-> <<>>]
    ELSE LET rest == SimilarScanAll(to, candidates, i + 1)
         IN  IF candidates[i].fetch # "ok"
             THEN [rest EXCEPT !.downloaded = <<i>> \o @]
             ELSE [hit |-> rest.hit \/ Hamming(to, candidates[i].hash) <= SimilarDistance,
                   downloaded |-> <<i>> \o rest.downloaded, hashed |-> <<i>> \o rest.hashed]

\* the loop of has_similar_hash from the i-th candidate on: its answer, the places of the
\* candidates it downloads and of those whose image it hashes
RECURSIVE SimilarScan(_, _, _)
SimilarScan(to, candidates, i) ==
    IF i > Len(candidates) THEN [hit |-> FALSE, downloaded |-> <<>>, hashed |-> <<>>]
    ELSE LET rest == SimilarScan(to, candidates, i + 1)
         IN  IF candidates[i].fetch \notin {"ok", "undecodable"}
             THEN [rest EXCEPT !.downloaded = <<i>> \o @]
             ELSE IF candidates[i].fetch = "undecodable"
             THEN [rest EXCEPT !.downloaded = <<i>> \o @]
             ELSE IF Hamming(to, candidates[i].hash) <= SimilarDistance
             THEN [hit |-> TRUE, downloaded |-> <<i>>, hashed |-> <<i>>]
             ELSE [hit |-> rest.hit, downloaded |-> <<i>> \o rest.downloaded,
                   hashed |-> <<i>> \o rest.hashed]

----------------------------------------------------------------------------
(* already_had_source: the pure parts *)

GroupKeyShared(group_id) == <<"group-sources", "g1">>

\* format!("group-sources:{}", group_id)
GroupKey(group_id) == <<"group-sources", group_id>>

\* the keys of the store that hold group sets
GroupKeys == {<<"group-sources", g>> : g \in Groups}

UrlsOf(matches) == [i \in DOMAIN matches |-> matches[i].url]

SourceUrlsNoDedup(matches) == SortUrls(UrlsOf(matches))

SourceUrlsOfFirst(matches) == IF matches = <<>> THEN <<>> ELSE <<matches[1].url>>

\* urls.sort(); urls.dedup()
SourceUrls(matches) == Dedup(SortUrls(UrlsOf(matches)))

SaddReplyAll(members, urls) == Cardinality(SeqToSet(urls))

\* SADD's reply: the number of members that were not in the set before
SaddReply(members, urls) == Cardinality(SeqToSet(urls) \ members)

AlreadyHadInverted(source_count, added_links) == source_count <= added_links

\* Ok(source_count > added_links)
AlreadyHad(source_count, added_links) == source_count > added_links

----------------------------------------------------------------------------
(* The edit job built by process_channel_update *)

SiteOrder == <<"FurAffinity", "Weasyl", "e621", "Twitter">>

SiteRank(site) == CHOOSE i \in DOMAIN SiteOrder : SiteOrder[i] = site

\* the best (lowest-distance, then earliest) match of one site
BestOfSite(matches, site) ==
    LET idx == {i \in DOMAIN matches : matches[i].site = site}
        best == CHOOSE i \in idx :
                    \A j \in idx :
                        \/ matches[i].distance < matches[j].distance
                        \/ matches[i].distance = matches[j].distance /\ i <= j
    IN  matches[best]

\* sort_results_by(default_order) then first_of_each_site, as (site, url) pairs
RECURSIVE FirstsFrom(_, _)
FirstsFrom(matches, i) ==
    IF i > Len(SiteOrder) THEN <<>>
    ELSE (IF \E j \in DOMAIN matches : matches[j].site = SiteOrder[i]
          THEN <<<<SiteOrder[i], BestOfSite(matches, SiteOrder[i]).url>>>>
          ELSE <<>>) \o FirstsFrom(matches, i + 1)

FirstsAll(matches) == [i \in DOMAIN matches |-> <<matches[i].site, matches[i].url>>]

Firsts(matches) == FirstsFrom(matches, 1)

\* MessageEdit { chat_id, message_id, media_group_id, firsts }
MessageEdit(message) ==
    [chat_id |-> message.chat_id, message_id |-> message.message_id,
     media_group_id |-> message.media_group_id, firsts |-> Firsts(Matches(message))]

\* faktory::Job::new(kind, vec![data]).on_queue("foxbot_background"), job.at
Job(kind, data, at) ==
    [kind |-> kind, queue |-> "foxbot_background", args |-> <<data>>, at |-> at]

NoJob == [kind |-> "none", queue |-> "none", args |-> <<>>, at |-> None]

\* the queue hands a job out once its scheduled instant has come
Ready(job) == job.at = None \/ job.at <= now

Enqueue(q, job) == q (+) SetToBag({job})

----------------------------------------------------------------------------
(* process_channel_edit: the pure parts *)

Newline == 0

\* firsts.map(|(_site, url)| url).join("\n")
RECURSIVE Caption(_)
Caption(firsts) ==
    IF firsts = <<>> THEN <<>>
    ELSE IF Len(firsts) = 1 THEN <<firsts[1][2]>>
    ELSE <<firsts[1][2], Newline>> \o Caption(Tail(firsts))

Button(first) == [text |-> first[1], url |-> first[2]]

\* buttons.chunks(n)
RECURSIVE Chunks(_, _)
Chunks(buttons, n) ==
    IF buttons = <<>> THEN <<>>
    ELSE IF Len(buttons) <= n THEN <<buttons>>
    ELSE <<SubSeq(buttons, 1, n)>> \o Chunks(SubSeq(buttons, n + 1, Len(buttons)), n)

KeyboardPairs(firsts) == Chunks([i \in DOMAIN firsts |-> Button(firsts[i])], 2)

\* two buttons per row for an even count, one per row otherwise
Keyboard(firsts) ==
    LET buttons == [i \in DOMAIN firsts |-> Button(firsts[i])]
    IN  IF Len(buttons) % 2 = 0 THEN Chunks(buttons, 2) ELSE Chunks(buttons, 1)

EditRequestAlwaysMarkup(data) ==
    [chat_id |-> data.chat_id, message_id |-> data.message_id,
     method |-> "editMessageReplyMarkup", caption |-> <<>>,
     reply_markup |-> Keyboard(data.firsts)]

\* EditMessageCaption for a media group, EditMessageReplyMarkup otherwise
EditRequest(data) ==
    IF data.media_group_id # NoGroup
    THEN [chat_id |-> data.chat_id, message_id |-> data.message_id,
          method |-> "editMessageCaption", caption |-> Caption(data.firsts),
          reply_markup |-> <<>>]
    ELSE [chat_id |-> data.chat_id, message_id |-> data.message_id,
          method |-> "editMessageReplyMarkup", caption |-> <<>>,
          reply_markup |-> Keyboard(data.firsts)]

\* format!("retry-at:{}", chat_id)
RetryKey(chat_id) == <<"retry-at", chat_id>>

RetryKeys == {RetryKey(c) : c \in Chats}

\* check_more_time: the stored instant while it is still in the future
CheckMoreTime(marker, chat_id, t) ==
    IF marker[RetryKey(chat_id)] # None /\ marker[RetryKey(chat_id)] > t
    THEN marker[RetryKey(chat_id)]
    ELSE None

\* needs_more_time: store the instant for the chat
NeedsMoreTime(marker, chat_id, at) == [marker EXCEPT ![RetryKey(chat_id)] = at]

NeedsWaitNever(at) == FALSE

NeedsWaitAlways(at) == TRUE

\* if let Some(at) = check_more_time(..)
NeedsWait(at) == at # None

RetryAtNow(t, retry_after) == t

\* now.add(chrono::Duration::seconds(retry_after as i64))
RetryAt(t, retry_after) == t + retry_after

Response(ok, error_code, retry_after) ==
    [ok |-> ok, error_code |-> error_code, retry_after |-> retry_after]

\* what the platform may answer to an edit request
Responses ==
    {Response(TRUE, None, None)}
    \cup {Response(FALSE, c, None) : c \in {400, 403, 429, 500}}
    \cup {Response(FALSE, c, r) : c \in {400, 403, 429}, r \in RetryAfters}

\* no answer: the run sent no request, or was rate limited
NoResponse == [ok |-> FALSE, error_code |-> None, retry_after |-> None]

ClassifyCodeFirst(resp) ==
    IF ~resp.ok /\ resp.error_code = 400 THEN "ignored_400"
    ELSE IF ~resp.ok /\ resp.error_code = 403 THEN "ignored_403"
    ELSE IF ~resp.ok /\ resp.retry_after # None THEN "rate_limited"
    ELSE IF resp.ok THEN "edited"
    ELSE "platform_error"

ClassifyOnly400(resp) ==
    IF ~resp.ok /\ resp.retry_after # None THEN "rate_limited"
    ELSE IF ~resp.ok /\ resp.error_code = 400 THEN "ignored_400"
    ELSE IF resp.ok THEN "edited"
    ELSE "platform_error"

ClassifyAllIgnored(resp) ==
    IF ~resp.ok /\ resp.retry_after # None THEN "rate_limited"
    ELSE IF ~resp.ok /\ resp.error_code \in {400, 403, 429} THEN "ignored_400"
    ELSE IF resp.ok THEN "edited"
    ELSE "platform_error"

\* match resp { .. }: the arms in their order
Classify(resp) ==
    IF ~resp.ok /\ resp.retry_after # None THEN "rate_limited"
    ELSE IF ~resp.ok /\ resp.error_code = 400 THEN "ignored_400"
    ELSE IF ~resp.ok /\ resp.error_code = 403 THEN "ignored_403"
    ELSE IF resp.ok THEN "edited"
    ELSE "platform_error"

----------------------------------------------------------------------------
(* State *)

Idle ==
    [pc |-> "idle", job |-> NoJob, found |-> <<>>, source_count |-> 0, added_links |-> 0,
     at |-> None, retry_after |-> None, sent |-> 0]

\* a job that carries no argument
BareJob(kind) == [kind |-> kind, queue |-> "foxbot_background", args |-> <<>>, at |-> None]

FirstArgOrNull(job) ==
    IF job.args = <<>>
    THEN <<[message_id |-> 0, chat_id |-> "c1", media_group_id |-> NoGroup, photo |-> "none",
            links |-> <<>>, hash |-> {}, found |-> <<>>, resolved |-> <<>>, firsts |-> <<>>]>>
    ELSE <<job.args[1]>>

\* job.args().iter().next(): the first argument if there is one, as a list of at most one
FirstArg(job) == IF job.args = <<>> THEN <<>> ELSE <<job.args[1]>>

\* the value read from the job's first argument
Payload(job) == job.args[1]

RetryPayloadRebuilt(job) == [Payload(job) EXCEPT !.firsts = <<>>]

\* vec![data]: the re-enqueued job carries the value that was read from the job
RetryPayload(job) == Payload(job)

Busy(w, kind, pc) == worker[w].job.kind = kind /\ worker[w].pc = pc

\* what a finished run did: its job, where it ended, its result, the requests it sent,
\* the platform's answer that ended it
Run(w, path, result) ==
    [kind |-> worker[w].job.kind,
     id |-> IF worker[w].job.args = <<>> THEN 0 ELSE Payload(worker[w].job).message_id,
     path |-> path,
     result |-> result, sent |-> worker[w].sent, resp |-> NoResponse]

Post(id) == CHOOSE m \in Posts : m.message_id = id

\* the deliveries of channel_update jobs that are explored: two posts, or one post twice
Deliveries ==
    {<<1, 1>>, <<1, 2>>, <<1, 3>>, <<1, 5>>, <<3, 4>>, <<4, 4>>, <<6, 7>>, <<8, 9>>,
     <<10, 11>>}

\* the deliveries explored for the progress of the edit chains
LiveDeliveries == {<<1, 3>>, <<8, 9>>}

Inboxes(deliveries) ==
    {Enqueue(SetToBag({Job("channel_update", Post(d[1]), None)}),
             Job("channel_update", Post(d[2]), None)) : d \in deliveries}

NoRun ==
    [kind |-> "none", id |-> 0, path |-> "none", result |-> "none", sent |-> 0,
     resp |-> NoResponse]

\* foxbot-sites/src/lib.rs: the Inkbunny loader

\* the longest list of ids asked for in one call
MaxIds == 2

SubmissionIds == {7, 8, 9}

\* Option<String>: no session id
NoSid == "none"

\* the session ids the site hands out
Sids == {"s1", "s2"}

\* lines 1227-1231: the ids in decimal, joined by commas
RECURSIVE JoinIds(_)
JoinIds(ids) ==
    IF ids = <<>> THEN ""
    ELSE IF Len(ids) = 1 THEN ToString(ids[1])
    ELSE ToString(ids[1]) \o "," \o JoinIds(Tail(ids))

NoCall == [ids |-> "", result |-> "none"]

\* lines 1262-1275: Inkbunny::new, and no call in progress
InkbunnyNew ==
    [sid |-> NoSid, pc |-> "idle", ids |-> "", form_sid |-> NoSid, last |-> NoCall]

NoProbe == [fn |-> "none", args |-> <<>>, done |-> FALSE, result |-> "none"]

\* the store, the queue and the workers before any delivery
Fresh ==
    /\ now = 0
    /\ group_sources = [k \in GroupKeys |-> {}]
    /\ group_expire = [k \in GroupKeys |-> None]
    /\ retry_at_key = [k \in RetryKeys |-> None]
    /\ worker = [w \in Workers |-> Idle]
    /\ sites = "free"
    /\ requests = {}
    /\ last = NoRun
    /\ calls = [k \in GroupKeys |-> <<>>]
    /\ retries = 0
    /\ rate_limits = 0
    /\ lost = {}
    /\ inkbunny = InkbunnyNew

InitWith(deliveries) ==
    /\ Fresh
    /\ queue \in Inboxes(deliveries)
    /\ probe = NoProbe

Init == InitWith(Deliveries)

LiveInit == InitWith(LiveDeliveries)

\* the function returns Ok(()): the job is acknowledged
Return(w, path) ==
    /\ last' = Run(w, path, "Ok")
    /\ worker' = [worker EXCEPT ![w] = Idle]

FailSwallowed(w, path) == Return(w, path) /\ UNCHANGED <<queue, retries>>

\* the function returns Err: the queue retries the job while its budget lasts
Fail(w, path) ==
    /\ last' = Run(w, path, "Err")
    /\ worker' = [worker EXCEPT ![w] = Idle]
    /\ IF retries < MaxRetries
       THEN queue' = Enqueue(queue, worker[w].job) /\ retries' = retries + 1
       ELSE UNCHANGED <<queue, retries>>

Goto(w, pc) == worker' = [worker EXCEPT ![w].pc = pc]

\* Return with nothing enqueued
Skip(w, path) == Return(w, path) /\ UNCHANGED <<queue, retries>>

----------------------------------------------------------------------------
(* The queue hands a ready job to an idle worker *)

Take(w) ==
    /\ UNCHANGED <<probe, inkbunny>>
    /\ worker[w].pc = "idle"
    /\ \A v \in Workers : worker[v].pc = "idle" => WorkerRank(w) <= WorkerRank(v)
    /\ \E job \in BagToSet(queue) :
        /\ Ready(job)
        /\ queue' = queue (-) SetToBag({job})
        /\ worker' = [worker EXCEPT ![w] = [Idle EXCEPT !.pc = "start", !.job = job]]
    /\ UNCHANGED <<now, group_sources, group_expire, retry_at_key, sites, requests,
                   last, calls, retries, rate_limits, lost>>

----------------------------------------------------------------------------
(* process_channel_update *)

BestPhotoAlwaysFile(photo) == "file"

\* find_best_photo(sizes).ok_or(Error::MissingData)?
BestPhoto(photo) == IF FindBestPhoto(photo) = "nothing" THEN "MissingData" ELSE "file"

NoPhotoNever(message) == FALSE

\* match &message.photo { None => return Ok(()) }
NoPhoto(message) == message.photo = "none"

\* lines 8-24: the photo sizes and the best photo
U_Start(w) ==
    /\ UNCHANGED <<probe, inkbunny>>
    /\ Busy(w, "channel_update", "start")
    /\ LET data == FirstArg(worker[w].job)
       IN  IF data = <<>> THEN Fail(w, "missing_data")
           ELSE IF NoPhoto(data[1]) THEN Skip(w, "no_photo")
           ELSE IF BestPhoto(data[1].photo) = "MissingData" THEN Fail(w, "missing_data")
           ELSE Goto(w, "match") /\ UNCHANGED <<last, queue, retries>>
    /\ UNCHANGED <<now, group_sources, group_expire, retry_at_key, sites, requests,
                   calls, rate_limits, lost>>

\* lines 25-40: match_image, then the distance filter
U_Match(w) ==
    /\ UNCHANGED <<probe, inkbunny>>
    /\ Busy(w, "channel_update", "match")
    /\ \E outcome \in MatcherOutcomes :
        LET answer == MatchImage(Payload(worker[w].job), outcome)
        IN  IF answer.result = "Err" THEN Fail(w, "match_error")
            ELSE IF Retain(answer.matches) = <<>>
            THEN Skip(w, IF outcome = "timeout" THEN "match_timeout" ELSE "no_match")
            ELSE /\ worker' = [worker EXCEPT ![w].pc = "lock", ![w].found = answer.matches]
                 /\ UNCHANGED <<last, queue, retries>>
    /\ UNCHANGED <<now, group_sources, group_expire, retry_at_key, sites, requests,
                   calls, rate_limits, lost>>

LockAlways(holder) == TRUE

\* handler.sites.lock().await completes once no one holds the mutex
LockFree(holder) == holder = "free"

\* lines 42-44: extract the links, then take the site lock
U_Lock(w) ==
    /\ UNCHANGED <<probe, inkbunny>>
    /\ Busy(w, "channel_update", "lock")
    /\ LockFree(sites)
    /\ sites' = w
    /\ Goto(w, "seen")
    /\ UNCHANGED <<now, group_sources, group_expire, retry_at_key, queue, requests,
                   last, calls, retries, rate_limits, lost>>

U_SeenKeepsLock(w) ==
    /\ UNCHANGED <<probe, inkbunny>>
    /\ Busy(w, "channel_update", "seen")
    /\ LET message == Payload(worker[w].job)
       IN  IF SelfSourced(message)
           THEN Skip(w, "self_sourced") /\ sites' = "free"
           ELSE IF ExtractLinks(message) # <<>>
           THEN Goto(w, "find_images") /\ UNCHANGED <<sites, last, queue, retries>>
           ELSE Goto(w, "sadd") /\ UNCHANGED <<sites, last, queue, retries>>
    /\ UNCHANGED <<now, group_sources, group_expire, retry_at_key, requests,
                   calls, rate_limits, lost>>

\* lines 46-56 and 74: under the lock, compare the post's links with the matches
U_Seen(w) ==
    /\ UNCHANGED <<probe, inkbunny>>
    /\ Busy(w, "channel_update", "seen")
    /\ LET message == Payload(worker[w].job)
       IN  IF SelfSourced(message)
           THEN Skip(w, "self_sourced") /\ sites' = "free"
           ELSE IF ExtractLinks(message) # <<>>
           THEN Goto(w, "find_images") /\ UNCHANGED <<sites, last, queue, retries>>
           ELSE Goto(w, "sadd") /\ sites' = "free" /\ UNCHANGED <<last, queue, retries>>
    /\ UNCHANGED <<now, group_sources, group_expire, retry_at_key, requests,
                   calls, rate_limits, lost>>

\* lines 57-61: find_images on the post's links, under the lock
U_FindImages(w) ==
    /\ UNCHANGED <<probe, inkbunny>>
    /\ Busy(w, "channel_update", "find_images")
    /\ Goto(w, "similar")
    /\ UNCHANGED <<now, group_sources, group_expire, retry_at_key, queue, sites, requests,
                   last, calls, retries, rate_limits, lost>>

U_SimilarRecording(w) ==
    /\ UNCHANGED <<probe, inkbunny>>
    /\ Busy(w, "channel_update", "similar")
    /\ LET message == Payload(worker[w].job)
           key == <<"group-sources", IF message.media_group_id = NoGroup THEN "g1"
                                     ELSE message.media_group_id>>
       IN  /\ group_sources' = [group_sources EXCEPT
                                   ![key] = @ \cup SeqToSet(UrlsOf(Matches(message)))]
           /\ IF HasSimilarHash(message.hash, message.resolved)
              THEN Skip(w, "similar")
              ELSE Goto(w, "sadd") /\ UNCHANGED <<last, queue, retries>>
    /\ sites' = "free"
    /\ UNCHANGED <<now, group_expire, retry_at_key, requests, calls, rate_limits, lost>>

\* lines 63-74: has_similar_hash on the resolved images, the lock dropped after it
U_Similar(w) ==
    /\ UNCHANGED <<probe, inkbunny>>
    /\ Busy(w, "channel_update", "similar")
    /\ LET message == Payload(worker[w].job)
       IN  IF HasSimilarHash(message.hash, message.resolved)
           THEN Skip(w, "similar")
           ELSE Goto(w, "sadd") /\ UNCHANGED <<last, queue, retries>>
    /\ sites' = "free"
    /\ UNCHANGED <<now, group_sources, group_expire, retry_at_key, requests,
                   calls, rate_limits, lost>>

GroupIdOrFirst(message) ==
    IF message.media_group_id = NoGroup THEN "g1" ELSE message.media_group_id

\* match &message.media_group_id { Some(id) => id, _ => return Ok(false) }
GroupId(message) == message.media_group_id

\* lines 269-284: no group, no store access; otherwise SADD of the sorted, distinct URLs
U_Sadd(w) ==
    /\ UNCHANGED <<probe, inkbunny>>
    /\ Busy(w, "channel_update", "sadd")
    /\ LET message == Payload(worker[w].job)
           key == GroupKey(GroupId(message))
           urls == SourceUrls(Matches(message))
       IN  IF GroupId(message) = NoGroup
           THEN /\ Goto(w, "enqueue")
                /\ UNCHANGED <<group_sources, calls, last, queue, retries>>
           ELSE \/ Fail(w, "sadd_error") /\ UNCHANGED <<group_sources, calls>>
                \/ /\ group_sources' = [group_sources EXCEPT ![key] = @ \cup SeqToSet(urls)]
                   /\ worker' = [worker EXCEPT ![w].pc = "expire",
                                               ![w].source_count = Len(urls),
                                               ![w].added_links = SaddReply(group_sources[key], urls)]
                   /\ calls' = [calls EXCEPT ![key] = Append(@,
                                    [id |-> message.message_id, urls |-> SeqToSet(urls),
                                     before |-> group_sources[key],
                                     had |-> AlreadyHad(Len(urls),
                                                        SaddReply(group_sources[key], urls))])]
                   /\ UNCHANGED <<last, queue, retries>>
    /\ UNCHANGED <<now, group_expire, retry_at_key, sites, requests, rate_limits, lost>>

\* lines 285-293 and 76-79: EXPIRE, then the comparison of the two counts
U_Expire(w) ==
    /\ UNCHANGED <<probe, inkbunny>>
    /\ Busy(w, "channel_update", "expire")
    /\ LET message == Payload(worker[w].job)
           key == GroupKey(GroupId(message))
       IN  \/ /\ Fail(w, "expire_error")
              /\ lost' = IF AlreadyHad(worker[w].source_count, worker[w].added_links)
                         THEN lost ELSE lost \cup {message.message_id}
              /\ UNCHANGED group_expire
           \/ /\ group_expire' = IF group_sources[key] # {}
                                 THEN [group_expire EXCEPT ![key] = now + GroupTTL]
                                 ELSE group_expire
              /\ IF AlreadyHad(worker[w].source_count, worker[w].added_links)
                 THEN Skip(w, "group_duplicate")
                 ELSE Goto(w, "enqueue") /\ UNCHANGED <<last, queue, retries>>
              /\ UNCHANGED lost
    /\ UNCHANGED <<now, group_sources, retry_at_key, sites, requests, calls, rate_limits>>

\* lines 81-101: build the MessageEdit and enqueue the channel_edit job
U_Enqueue(w) ==
    /\ UNCHANGED <<probe, inkbunny>>
    /\ Busy(w, "channel_update", "enqueue")
    /\ queue' = Enqueue(queue, Job("channel_edit", MessageEdit(Payload(worker[w].job)), None))
    /\ Return(w, "emitted")
    /\ lost' = lost \ {Payload(worker[w].job).message_id}
    /\ UNCHANGED <<now, group_sources, group_expire, retry_at_key, sites, requests,
                   calls, retries, rate_limits>>

----------------------------------------------------------------------------
(* process_channel_edit *)

ChatIdShared(data) == "c1"

\* let MessageEdit { chat_id, .. } = from_value(data): the chat the calls are made for
ChatId(data) == data.chat_id

\* lines 107-134: parse the payload and consult the chat's backoff marker
E_Start(w) ==
    /\ UNCHANGED <<probe, inkbunny>>
    /\ Busy(w, "channel_edit", "start")
    /\ LET data == FirstArg(worker[w].job)
       IN  IF data = <<>> THEN Fail(w, "missing_data")
           ELSE /\ LET at == CheckMoreTime(retry_at_key, ChatId(data[1]), now)
                   IN  IF NeedsWait(at)
                       THEN worker' = [worker EXCEPT ![w].pc = "reschedule", ![w].at = at]
                       ELSE Goto(w, "request")
                /\ UNCHANGED <<last, queue, retries>>
    /\ UNCHANGED <<now, group_sources, group_expire, retry_at_key, sites, requests,
                   calls, rate_limits, lost>>

\* lines 127-133: enqueue the same payload at the marker's instant
E_Reschedule(w) ==
    /\ UNCHANGED <<probe, inkbunny>>
    /\ Busy(w, "channel_edit", "reschedule")
    /\ queue' = Enqueue(queue, Job("channel_edit", RetryPayload(worker[w].job), worker[w].at))
    /\ Return(w, "rescheduled")
    /\ UNCHANGED <<now, group_sources, group_expire, retry_at_key, sites, requests,
                   calls, retries, rate_limits, lost>>

\* the chat's stored instant is still ahead of the clock
InBackoff(chat_id) ==
    retry_at_key[RetryKey(chat_id)] # None /\ retry_at_key[RetryKey(chat_id)] > now

\* lines 136-243: the edit request and the platform's answer
E_Request(w) ==
    /\ UNCHANGED <<probe, inkbunny>>
    /\ Busy(w, "channel_edit", "request")
    /\ LET data == Payload(worker[w].job)
           sending == [worker EXCEPT ![w].sent = @ + 1]
       IN  /\ requests' = requests \cup
                  {[request |-> EditRequest(data), backoff |-> InBackoff(ChatId(data))]}
           /\ \E resp \in Responses :
                CASE Classify(resp) = "rate_limited" ->
                        /\ rate_limits < MaxRateLimits
                        /\ RetryAt(now, resp.retry_after) <= MaxTime
                        /\ rate_limits' = rate_limits + 1
                        /\ worker' = [sending EXCEPT ![w].pc = "needs_more_time",
                                          ![w].retry_after = resp.retry_after,
                                          ![w].at = RetryAt(now, resp.retry_after)]
                        /\ UNCHANGED <<last, queue, retries>>
                  [] Classify(resp) = "platform_error" ->
                        /\ last' = [Run(w, "platform_error", "Err") EXCEPT !.sent = @ + 1,
                                                                         !.resp = resp]
                        /\ worker' = [worker EXCEPT ![w] = Idle]
                        /\ IF retries < MaxRetries
                           THEN queue' = Enqueue(queue, worker[w].job) /\ retries' = retries + 1
                           ELSE UNCHANGED <<queue, retries>>
                        /\ UNCHANGED rate_limits
                  [] OTHER ->
                        /\ last' = [Run(w, Classify(resp), "Ok") EXCEPT !.sent = @ + 1,
                                                                      !.resp = resp]
                        /\ worker' = [worker EXCEPT ![w] = Idle]
                        /\ UNCHANGED <<queue, retries, rate_limits>>
    /\ UNCHANGED <<now, group_sources, group_expire, retry_at_key, sites, calls, lost>>

\* line 200: needs_more_time(&handler.redis, chat_id, retry_at)
E_NeedsMoreTime(w) ==
    /\ UNCHANGED <<probe, inkbunny>>
    /\ Busy(w, "channel_edit", "needs_more_time")
    /\ retry_at_key' = NeedsMoreTime(retry_at_key, ChatId(Payload(worker[w].job)), worker[w].at)
    /\ Goto(w, "enqueue")
    /\ UNCHANGED <<now, group_sources, group_expire, queue, sites, requests,
                   last, calls, retries, rate_limits, lost>>

E_EnqueueTwice(w) ==
    /\ UNCHANGED <<probe, inkbunny>>
    /\ Busy(w, "channel_edit", "enqueue")
    /\ queue' = Enqueue(Enqueue(queue, Job("channel_edit", RetryPayload(worker[w].job),
                                            worker[w].at)),
                        Job("channel_edit", RetryPayload(worker[w].job), worker[w].at))
    /\ Return(w, "rate_limited")
    /\ UNCHANGED <<now, group_sources, group_expire, retry_at_key, sites, requests,
                   calls, retries, rate_limits, lost>>

\* lines 202-209: enqueue the same payload at retry_at
E_Enqueue(w) ==
    /\ UNCHANGED <<probe, inkbunny>>
    /\ Busy(w, "channel_edit", "enqueue")
    /\ queue' = Enqueue(queue, Job("channel_edit", RetryPayload(worker[w].job), worker[w].at))
    /\ Return(w, "rate_limited")
    /\ UNCHANGED <<now, group_sources, group_expire, retry_at_key, sites, requests,
                   calls, retries, rate_limits, lost>>

----------------------------------------------------------------------------
(* Time passes; Redis drops the keys whose expiry instant has come *)

Expired(k, t) == group_expire[k] # None /\ group_expire[k] <= t

Tick(d) ==
    /\ UNCHANGED <<probe, inkbunny>>
    /\ now + d <= MaxTime
    /\ now' = now + d
    /\ group_sources' = [k \in GroupKeys |-> IF Expired(k, now + d) THEN {} ELSE group_sources[k]]
    /\ group_expire' = [k \in GroupKeys |-> IF Expired(k, now + d) THEN None ELSE group_expire[k]]
    /\ calls' = [k \in GroupKeys |-> IF Expired(k, now + d) THEN <<>> ELSE calls[k]]
    /\ UNCHANGED <<retry_at_key, queue, worker, sites, requests, last, retries,
                   rate_limits, lost>>

Next ==
    \/ \E w \in Workers :
        \/ Take(w)
        \/ U_Start(w) \/ U_Match(w) \/ U_Lock(w) \/ U_Seen(w) \/ U_FindImages(w)
        \/ U_Similar(w)
        \/ U_Sadd(w) \/ U_Expire(w) \/ U_Enqueue(w)
        \/ E_Start(w) \/ E_Reschedule(w) \/ E_Request(w) \/ E_NeedsMoreTime(w)
        \/ E_Enqueue(w)
    \/ \E d \in TickSteps : Tick(d)

Spec == Init /\ [][Next]_vars

\* the deliveries explored next to a job that carries no argument
BareDeliveries == {<<1, 9>>, <<6, 6>>}

\* the same workers, with a job that carries no argument among the deliveries
BareInit ==
    /\ Fresh
    /\ probe = NoProbe
    /\ queue \in {Enqueue(inbox, BareJob(kind)) :
                    inbox \in Inboxes(BareDeliveries), kind \in {"channel_update", "channel_edit"}}

BareSpec == BareInit /\ [][Next]_vars

----------------------------------------------------------------------------
(* The functions of the worker, called on their own over small inputs *)

SeqsUpTo(S, n) == UNION {[1..k -> S] : k \in 0..n}

Probe(fn, args) == [fn |-> fn, args |-> args, done |-> FALSE, result |-> "none"]

\* the call is made: the function's value on the arguments
Answer(value) ==
    /\ ~probe.done
    /\ probe' = [probe EXCEPT !.done = TRUE, !.result = value]
    /\ UNCHANGED <<now, group_sources, group_expire, retry_at_key, queue, worker, sites,
                   requests, last, calls, retries, rate_limits, lost, inkbunny>>

Asked(fn) == probe.fn = fn /\ probe.done

\* fingerprints at 0, 3 and 4 bits from the photo's
Fingerprints == {{1, 2}, {1, 2, 3, 4, 5}, {1, 2, 3, 4, 5, 6}}

\* how the download and the decoding of a candidate may end
Fetches == {"ok", "failed", "undecodable"}

\* candidates that are fetched and decoded, at each distance, and near ones that are not
Candidates ==
    {Fetched(9, "ok", h) : h \in Fingerprints}
        \cup {Fetched(9, f, h) : f \in Fetches \ {"ok"}, h \in {{1, 2}, {1, 2, 3, 4, 5}}}

SimilarProbes == {Probe("has_similar_hash", <<{1, 2}, c>>) : c \in SeqsUpTo(Candidates, MaxCandidates)}

P_HasSimilarHash ==
    /\ probe.fn = "has_similar_hash"
    /\ Answer(HasSimilarHash(probe.args[1], probe.args[2]))

\* the distances the search may report: none, or a number of bits
Distances == {None, 3, 4}

\* matches of one site, told apart by their URL
SiteFiles == {File("FurAffinity", u, d) : u \in {1, 2}, d \in Distances}

RetainProbes == {Probe("retain", <<found>>) : found \in SeqsUpTo(SiteFiles, MaxMatches)}

P_Retain ==
    /\ probe.fn = "retain"
    /\ Answer(Retain(probe.args[1]))

\* matches of two sites, near (also at equal distance) and far
TwoSiteFiles ==
    {File(site, ud[1], ud[2]) : site \in {"e621", "FurAffinity"},
                                ud \in {<<1, 1>>, <<2, 1>>, <<2, 2>>, <<1, 5>>}}

FirstsProbes == {Probe("firsts", <<found>>) : found \in SeqsUpTo(TwoSiteFiles, MaxMatches)}

\* lines 35 and 82-87: the filter, then the firsts of the edit job
P_Firsts ==
    /\ probe.fn = "firsts"
    /\ Answer(Firsts(Retain(probe.args[1])))

\* (site, url) pairs of an edit job's payload
Pairs == {<<site, u>> : site \in {"FurAffinity", "e621"}, u \in {1, 2}}

\* the payload of an edit job of a standalone message: chat, message, group, firsts
KeyboardProbes ==
    {Probe("keyboard", <<"c2", 4, NoGroup, firsts>>) : firsts \in SeqsUpTo(Pairs, MaxFirsts)}

\* lines 155-177: the reply markup of the edit of a standalone message
P_Keyboard ==
    /\ probe.fn = "keyboard"
    /\ Answer(EditRequest([chat_id |-> probe.args[1], message_id |-> probe.args[2],
                            media_group_id |-> probe.args[3],
                            firsts |-> probe.args[4]]).reply_markup)

\* has_similar_hash(to, urls), followed from its first candidate
ScanProbes ==
    {Probe("scan", <<{1, 2}, c, 1>>) : c \in SeqsUpTo(Candidates, MaxCandidates)}

\* lines 302-348: the loop over the candidates
P_SimilarScan ==
    /\ probe.fn = "scan"
    /\ Answer(SimilarScan(probe.args[1], probe.args[2], probe.args[3]))

\* the answer of the platform to an edit request
ClassifyProbes == {Probe("classify", <<resp>>) : resp \in Responses}

\* lines 184-243: the arm of the match that takes the answer
P_Classify ==
    /\ probe.fn = "classify"
    /\ Answer(Classify(probe.args[1]))

PureInit ==
    /\ Fresh
    /\ queue = EmptyBag
    /\ \/ probe \in SimilarProbes
       \/ probe \in RetainProbes
       \/ probe \in FirstsProbes
       \/ probe \in KeyboardProbes
       \/ probe \in ScanProbes
       \/ probe \in ClassifyProbes

PureNext ==
    P_HasSimilarHash \/ P_Retain \/ P_Firsts \/ P_Keyboard \/ P_SimilarScan \/ P_Classify

PureSpec == PureInit /\ [][PureNext]_vars

----------------------------------------------------------------------------
(* The Inkbunny loader: get_sid and get_submissions *)

\* what the site answers to a login, or that the request did not get through
LoginResponses ==
    {[kind |-> "unreachable", sid |-> NoSid, ratingsmask |-> "", error_code |-> None]}
    \cup {[kind |-> "success", sid |-> s, ratingsmask |-> m, error_code |-> None] :
            s \in Sids, m \in {"11111", "11100"}}
    \cup {[kind |-> "error", sid |-> NoSid, ratingsmask |-> "", error_code |-> c] :
            c \in {0, 1}}

\* what the site answers to a submissions request
SubmissionsResponses ==
    {[kind |-> "unreachable", error_code |-> None],
     [kind |-> "success", error_code |-> None]}
    \cup {[kind |-> "error", error_code |-> c] : c \in {1, 2}}

\* &mut self: a step of the loader changes the loader alone
InkStep(next) ==
    /\ inkbunny' = next
    /\ UNCHANGED <<now, group_sources, group_expire, retry_at_key, queue, worker, sites,
                   requests, last, calls, retries, rate_limits, lost, probe>>

\* the call ends with a result, an error or a panic; the cached session id stays
InkReturn(result) ==
    [inkbunny EXCEPT !.pc = "idle", !.ids = "", !.form_sid = NoSid,
                     !.last = [ids |-> inkbunny.ids, result |-> result]]

\* lines 1226-1233: get_submissions is called and enters its loop
I_GetSubmissions(ids) ==
    /\ inkbunny.pc = "idle"
    /\ InkStep([inkbunny EXCEPT !.pc = "get_sid", !.ids = JoinIds(ids)])

\* lines 1192-1195 and 1235: the cached session id, or else a login request
I_GetSid ==
    /\ inkbunny.pc = "get_sid"
    /\ IF inkbunny.sid # NoSid
       THEN InkStep([inkbunny EXCEPT !.pc = "submissions", !.form_sid = inkbunny.sid])
       ELSE InkStep([inkbunny EXCEPT !.pc = "login"])

\* lines 1197-1222: the answer to the login request
I_Login ==
    /\ inkbunny.pc = "login"
    /\ \E resp \in LoginResponses :
        IF resp.kind = "unreachable" THEN InkStep(InkReturn("Err"))
        ELSE IF resp.kind = "error" \/ resp.ratingsmask # "11111"
        THEN InkStep(InkReturn("panic"))
        ELSE InkStep([inkbunny EXCEPT !.sid = resp.sid, !.form_sid = resp.sid,
                                      !.pc = "submissions"])

\* lines 1237-1257: the answer to the submissions request
I_Submissions ==
    /\ inkbunny.pc = "submissions"
    /\ \E resp \in SubmissionsResponses :
        IF resp.kind = "unreachable" THEN InkStep(InkReturn("Err"))
        ELSE IF resp.kind = "success" THEN InkStep(InkReturn("Ok"))
        ELSE IF resp.error_code = 2
        THEN InkStep([inkbunny EXCEPT !.sid = NoSid, !.form_sid = NoSid, !.pc = "get_sid"])
        ELSE InkStep(InkReturn("panic"))

InkInit ==
    /\ Fresh
    /\ queue = EmptyBag
    /\ probe = NoProbe

\* a call in progress
InkRuns == I_GetSid \/ I_Login \/ I_Submissions

InkNext ==
    \/ \E ids \in SeqsUpTo(SubmissionIds, MaxIds) : I_GetSubmissions(ids)
    \/ I_GetSid
    \/ I_Login
    \/ I_Submissions

\* every request is answered or fails, and the task is polled again
InkSpec == InkInit /\ [][InkNext]_vars /\ WF_vars(InkRuns)

----------------------------------------------------------------------------
(* Properties *)

G1Key == <<"group-sources", "g1">>
G2Key == <<"group-sources", "g2">>

Overlap(a, b) == a \cap b # {}

RunsUpdate(w) == worker[w].job.kind = "channel_update"

RunsEdit(w) == worker[w].job.kind = "channel_edit"

\* the worker is the one that takes the step
Steps(w) == worker'[w] # worker[w]

\* C1: of two successive set-adds with the same URL set on one group, the second made
\* while the key written by the first is still alive (within its 300 s), the first,
\* made when the group held none of the URLs, reports false and the second reports true
C1_TwiceFalseThenTrue ==
    \A k \in GroupKeys : \A i \in DOMAIN calls[k] :
        (/\ i + 1 \in DOMAIN calls[k]
         /\ calls[k][i].urls = calls[k][i + 1].urls
         /\ ~Overlap(calls[k][i].before, calls[k][i].urls))
        => ~calls[k][i].had /\ calls[k][i + 1].had

C1_Witness ==
    /\ Len(calls[G1Key]) = 2
    /\ calls[G1Key][1].urls = calls[G1Key][2].urls
    /\ ~calls[G1Key][1].had /\ calls[G1Key][2].had
    /\ last.path = "group_duplicate" /\ last.result = "Ok"

\* C2: a set-add reports true exactly when one of the submitted URLs, sorted and made
\* distinct, was a member of the group's set at the moment of the set-add
C2_DuplicateIffMember ==
    \A k \in GroupKeys : \A i \in DOMAIN calls[k] :
        calls[k][i].had <=> Overlap(calls[k][i].before, calls[k][i].urls)

C2_Witness ==
    \E i \in DOMAIN calls[G1Key] :
        /\ calls[G1Key][i].had
        /\ Overlap(calls[G1Key][i].before, calls[G1Key][i].urls)
        /\ calls[G1Key][i].urls \ calls[G1Key][i].before # {}

\* C3: a run's set-add and expire read and change only the key of its own group, and
\* what the set-add reports depends on that key's members alone
C3_OtherGroupsUntouched ==
    [][\A w \in Workers :
        (RunsUpdate(w) /\ worker[w].pc \in {"sadd", "expire"} /\ Steps(w))
        => LET message == worker[w].job.args[1]
               own == <<"group-sources", message.media_group_id>>
               urls == {message.found[i].url : i \in
                           {j \in DOMAIN message.found :
                               message.found[j].distance # None
                               /\ message.found[j].distance <= 3}}
           IN  /\ \A k \in GroupKeys \ {own} :
                    group_sources'[k] = group_sources[k] /\ group_expire'[k] = group_expire[k]
               /\ (worker[w].pc = "sadd" /\ worker'[w].pc = "expire")
                    => ((worker'[w].source_count > worker'[w].added_links)
                            <=> Overlap(group_sources[own], urls))]_vars

C3_Witness ==
    \E i \in DOMAIN calls[G2Key] :
        /\ ~calls[G2Key][i].had
        /\ Overlap(calls[G2Key][i].urls, group_sources[G1Key])
        /\ last.id = 3 /\ last.path = "emitted"

\* C4 as stated: of two concurrently running channel_update jobs of one media group whose
\* URL sets overlap, at most one passes the group-dedup gate
C4_AtMostOnePasses ==
    \A w1, w2 \in Workers :
        (/\ w1 # w2
         /\ Busy(w1, "channel_update", "enqueue") /\ Busy(w2, "channel_update", "enqueue")
         /\ Payload(worker[w1].job).message_id # Payload(worker[w2].job).message_id
         /\ Payload(worker[w1].job).media_group_id # NoGroup
         /\ Payload(worker[w1].job).media_group_id = Payload(worker[w2].job).media_group_id)
        => ~Overlap(SeqToSet(UrlsOf(Matches(Payload(worker[w1].job)))),
                    SeqToSet(UrlsOf(Matches(Payload(worker[w2].job)))))

\* C4 amended: of two set-adds made on one group during one life of its key (the key does
\* not expire between them) whose URL sets overlap, at most one is reported new
C4_AtMostOnePassesPerKeyLife ==
    \A k \in GroupKeys : \A i, j \in DOMAIN calls[k] :
        (i < j /\ Overlap(calls[k][i].urls, calls[k][j].urls))
        => calls[k][i].had \/ calls[k][j].had

C4_Witness ==
    /\ Busy("w1", "channel_update", "enqueue")
    /\ Busy("w2", "channel_update", "expire")
    /\ Len(calls[G1Key]) = 2
    /\ calls[G1Key][1].id # calls[G1Key][2].id
    /\ Overlap(calls[G1Key][1].urls, calls[G1Key][2].urls)
    /\ ~calls[G1Key][1].had /\ calls[G1Key][2].had

\* the job that a re-enqueue of the worker's payload at instant t adds to the queue
Rescheduled(w, t) ==
    [kind |-> "channel_edit", queue |-> "foxbot_background", args |-> worker[w].job.args,
     at |-> t]

MarkerOf(w) == retry_at_key[<<"retry-at", worker[w].job.args[1].chat_id>>]

\* C5: an edit answered with a rate limit of N seconds computes T = now + N, writes T as
\* the chat's backoff marker, enqueues exactly one channel_edit job on foxbot_background
\* scheduled at T, and returns Ok
C5_RateLimitedReschedules ==
    [][\A w \in Workers :
        (RunsEdit(w) /\ Steps(w))
        => /\ (worker[w].pc = "request" /\ worker'[w].pc = "needs_more_time")
                => /\ worker'[w].at = now + worker'[w].retry_after
                   /\ queue' = queue
           /\ worker[w].pc = "needs_more_time"
                => /\ MarkerOf(w)' = worker[w].at
                   /\ worker'[w].at = worker[w].at
                   /\ queue' = queue
           /\ worker[w].pc = "enqueue"
                => /\ queue' = queue (+) SetToBag({Rescheduled(w, worker[w].at)})
                   /\ last'.path = "rate_limited" /\ last'.result = "Ok"
                   /\ worker'[w].pc = "idle"]_vars

C5_Witness ==
    /\ last.kind = "channel_edit" /\ last.path = "rate_limited" /\ last.result = "Ok"
    /\ \E job \in BagToSet(queue) :
        /\ job.kind = "channel_edit" /\ job.args[1].message_id = last.id
        /\ job.at = retry_at_key[<<"retry-at", job.args[1].chat_id>>]
        /\ job.at = now + 150
        /\ CopiesIn(job, queue) = 1

\* C6: an edit job that starts while the chat's marker is still in the future enqueues
\* one job with the same payload at that instant, sends no request and returns Ok; one
\* that starts otherwise is not rescheduled by the pre-check and sends exactly one request
C6_PreCheck ==
    [][\A w \in Workers :
        (RunsEdit(w) /\ Steps(w))
        => /\ worker[w].pc = "start"
                => IF MarkerOf(w) # None /\ MarkerOf(w) > now
                   THEN worker'[w].pc = "reschedule" /\ worker'[w].at = MarkerOf(w)
                   ELSE worker'[w].pc = "request"
           /\ worker[w].pc = "reschedule"
                => /\ queue' = queue (+) SetToBag({Rescheduled(w, worker[w].at)})
                   /\ requests' = requests
                   /\ last'.path = "rescheduled" /\ last'.result = "Ok" /\ last'.sent = 0
           /\ worker[w].pc = "request"
                => IF worker'[w].pc = "idle" THEN last'.sent = 1 ELSE worker'[w].sent = 1
           /\ worker[w].pc \in {"needs_more_time", "enqueue"}
                => /\ requests' = requests
                   /\ IF worker'[w].pc = "idle" THEN last'.sent = 1 ELSE worker'[w].sent = 1]_vars

C6_Witness ==
    /\ last.kind = "channel_edit" /\ last.path = "rescheduled" /\ last.sent = 0
    /\ \E job \in BagToSet(queue) :
        /\ job.kind = "channel_edit" /\ job.args[1].message_id = last.id
        /\ job.at # None /\ job.at > now
    /\ \A r \in requests : r.request.message_id # last.id

\* C7: no edit request is sent for a chat while that chat's backoff marker holds an
\* instant that is still in the future
C7_NoRequestDuringBackoff == \A r \in requests : ~r.backoff

\* C8: every job that a channel_edit run enqueues (on the pre-check path and on the
\* rate-limited path) is a channel_edit job with the payload of the job being processed
C8_SamePayload ==
    [][\A w \in Workers :
        (RunsEdit(w) /\ Steps(w))
        => \A job \in BagToSet(queue') :
            CopiesIn(job, queue') > CopiesIn(job, queue)
            => job.kind = "channel_edit" /\ job.args = worker[w].job.args]_vars

C8_Witness ==
    /\ last.kind = "channel_edit" /\ last.path \in {"rescheduled", "rate_limited"}
    /\ \E job \in BagToSet(queue) :
        /\ job.kind = "channel_edit" /\ job.at # None
        /\ job.args[1].message_id = last.id
        /\ job.args[1].firsts # <<>>
        /\ job.args[1] = MessageEdit(Post(last.id))

\* no channel_edit job is pending or running
EditQuiet ==
    /\ \A job \in BagToSet(queue) : job.kind # "channel_edit"
    /\ \A w \in Workers : ~RunsEdit(w)

\* the queue keeps handing out jobs, the workers keep running and time keeps passing
FairSpec == LiveInit /\ [][Next]_vars /\ WF_vars(Next)

\* C9: under fair scheduling and finitely many rate-limit answers, every chain of
\* channel_edit jobs reaches a terminal outcome after which no successor is pending
C9_EditChainsTerminate == <>[]EditQuiet

C9_Witness ==
    /\ EditQuiet
    /\ rate_limits > 0
    /\ last.kind = "channel_edit" /\ last.path = "edited"
    /\ \E r \in requests : r.request.message_id = last.id

\* C10: once a run of a message's job has added its URLs to the group's set and failed
\* before enqueuing, a later delivery of that job does not end at the group-dedup gate:
\* it enqueues the edit job
C10_RedeliveryStillEmits ==
    ~(/\ last.kind = "channel_update" /\ last.path = "group_duplicate" /\ last.result = "Ok"
      /\ last.id \in lost
      /\ \A job \in BagToSet(queue) :
            job.kind = "channel_update" => job.args[1].message_id # last.id
      /\ \A w \in Workers : RunsUpdate(w) => worker[w].job.args[1].message_id # last.id)

\* an edit job of the message was enqueued before: it is pending, or running, or one of
\* its requests has been sent
EditJobEnqueued(id) ==
    \/ \E job \in BagToSet(queue) : job.kind = "channel_edit" /\ job.args[1].message_id = id
    \/ \E w \in Workers : RunsEdit(w) /\ worker[w].job.args[1].message_id = id
    \/ \E r \in requests : r.request.message_id = id

\* C11: over the deliveries of one message's channel_update job, at most one channel_edit
\* job is enqueued for the message, with or without a media group: no run enqueues the
\* edit job of a message for which one was enqueued before
C11_AtMostOneEditJob ==
    [][\A w \in Workers :
        (Busy(w, "channel_update", "enqueue") /\ Steps(w))
        => ~EditJobEnqueued(worker[w].job.args[1].message_id)]_vars

\* the matches of the message that are near enough: a distance, and at most 3
Near(m) == {i \in DOMAIN m.found : m.found[i].distance # None /\ m.found[i].distance <= 3}

\* photo present, a near match, none of them among the post's links, no resolved image
\* within 3 bits of the photo's fingerprint
ContentGatesPass(m) ==
    /\ m.photo # "none"
    /\ Near(m) # {}
    /\ \A i \in Near(m) : \A j \in DOMAIN m.links : m.links[j] # m.found[i].url
    /\ \A i \in DOMAIN m.resolved :
        m.resolved[i].fetch = "ok"
        => Cardinality((m.hash \ m.resolved[i].hash) \cup (m.resolved[i].hash \ m.hash)) > 3

\* jobs of the kind that the step adds to the queue
Added(kind) ==
    {job \in BagToSet(queue') : job.kind = kind /\ CopiesIn(job, queue') > CopiesIn(job, queue)}

\* C12: a run that returns enqueues exactly one channel_edit job, for its message, when
\* every gate passed (photo, a near match among those the matcher gave, no own link
\* matched, no similar image, the group set-add reported nothing known) and enqueues
\* nothing otherwise; no other step of a run enqueues an edit job; a run that ends at a
\* gate returns Ok
C12_EmitsIffAllGatesPass ==
    [][\A w \in Workers :
        (RunsUpdate(w) /\ Steps(w))
        => LET m == [worker[w].job.args[1] EXCEPT !.found = worker[w].found]
               returns == worker'[w].pc = "idle" /\ last'.result = "Ok"
               pass == ContentGatesPass(m) /\ ~(worker[w].source_count > worker[w].added_links)
           IN  /\ IF returns /\ pass
                  THEN \E job \in Added("channel_edit") :
                          /\ job.args[1].message_id = m.message_id
                          /\ queue' = queue (+) SetToBag({job})
                  ELSE Added("channel_edit") = {}
               /\ returns => Added("channel_update") = {}
               /\ (/\ worker'[w].pc = "idle"
                   /\ \/ worker[w].pc = "start" /\ m.photo = "none"
                      \/ worker[w].pc \in {"seen", "similar"})
                  => last'.result = "Ok" /\ queue' = queue]_vars

C12_Witness ==
    /\ last.kind = "channel_update" /\ last.id = 6 /\ last.result = "Ok"
    /\ ContentGatesPass(Post(6))
    /\ \E job \in BagToSet(queue) :
        job.kind = "channel_edit" /\ job.args[1].message_id = 6 /\ CopiesIn(job, queue) = 1

\* C13: the run of a message without photo payload ends at its first step: it returns Ok,
\* enqueues nothing, never reaches the matcher and leaves the store as it was
C13_NoPhotoSkips ==
    [][\A w \in Workers :
        (RunsUpdate(w) /\ worker[w].job.args[1].photo = "none" /\ Steps(w))
        => /\ worker[w].pc = "start"
           /\ worker'[w].pc = "idle"
           /\ last'.id = worker[w].job.args[1].message_id /\ last'.result = "Ok"
           /\ queue' = queue /\ retries' = retries
           /\ group_sources' = group_sources /\ group_expire' = group_expire
           /\ calls' = calls /\ sites' = sites]_vars

C13_Witness ==
    /\ last.kind = "channel_update" /\ last.id = 9 /\ last.result = "Ok"
    /\ Post(9).photo = "none"
    /\ \A job \in BagToSet(queue) : job.args[1].message_id # 9
    /\ \A w \in Workers : worker[w].pc = "idle"

\* C14 as stated: the run of a message whose photo field is present but yields no best
\* size (an empty size list) returns Ok
C14_NoBestPhotoSkips ==
    (last.kind = "channel_update" /\ Post(last.id).photo = "empty") => last.result = "Ok"

\* C14 amended: the run of a message whose photo field is present but yields no best size
\* ends at its first step with an error (MissingData): the job fails, no edit job is
\* enqueued, the matcher is never reached and the store is left as it was
C14_NoBestPhotoFails ==
    [][\A w \in Workers :
        (RunsUpdate(w) /\ worker[w].job.args[1].photo = "empty" /\ Steps(w))
        => /\ worker[w].pc = "start"
           /\ worker'[w].pc = "idle"
           /\ last'.id = worker[w].job.args[1].message_id /\ last'.result = "Err"
           /\ Added("channel_edit") = {}
           /\ group_sources' = group_sources /\ group_expire' = group_expire
           /\ calls' = calls /\ sites' = sites]_vars

C14_Witness ==
    /\ last.kind = "channel_update" /\ last.id = 10 /\ last.result = "Err"
    /\ Post(10).photo = "empty"
    /\ \A job \in BagToSet(queue) : job.kind # "channel_edit"
    /\ \A w \in Workers : RunsUpdate(w) => worker[w].job.args[1].message_id # 10

\* one of the post's links is the URL of a near match
OwnLinkMatched(m) == \E i \in Near(m) : \E j \in DOMAIN m.links : m.links[j] = m.found[i].url

\* C15: the run of a post one of whose links equals the URL of a match with distance <= 3
\* ends when it compares the links with the matches: it returns Ok, enqueues nothing, and
\* never resolves the links, runs the similarity check or touches the store
C15_SelfSourcedSkips ==
    [][\A w \in Workers :
        (RunsUpdate(w) /\ OwnLinkMatched(worker[w].job.args[1]) /\ Steps(w))
        => /\ worker[w].pc \in {"start", "match", "lock", "seen"}
           /\ worker'[w].pc \in {"match", "lock", "seen", "idle"}
           /\ Added("channel_edit") = {}
           /\ group_sources' = group_sources /\ group_expire' = group_expire
           /\ calls' = calls
           /\ worker[w].pc = "seen"
                => /\ worker'[w].pc = "idle"
                   /\ last'.id = worker[w].job.args[1].message_id /\ last'.result = "Ok"
                   /\ queue' = queue
                   /\ sites' = "free"]_vars

C15_Witness ==
    /\ last.kind = "channel_update" /\ last.id = 7 /\ last.result = "Ok"
    /\ OwnLinkMatched(Post(7))
    /\ Post(7).links[1] \notin {Post(7).found[i].url : i \in DOMAIN Post(7).found}
    /\ group_sources[G2Key] = {}
    /\ \A job \in BagToSet(queue) : job.args[1].message_id # 7

\* the platform answered with one of the two ignored client errors, without retry-after
IgnoredError(r) == ~r.ok /\ r.error_code \in {400, 403} /\ r.retry_after = None

\* the platform answered with an error that carries no retry-after and is neither 400 nor 403
OtherError(r) == ~r.ok /\ r.error_code \notin {400, 403} /\ r.retry_after = None

\* C16: an edit answered with 400 or 403 without retry-after, or answered with success,
\* ends the run at once: it returns Ok, nothing is enqueued and no marker is written;
\* only an answer that carries a retry-after keeps the run going
C16_IgnoredErrorsReturnOk ==
    [][\A w \in Workers :
        (RunsEdit(w) /\ worker[w].pc = "request" /\ Steps(w))
        => IF worker'[w].pc = "idle"
           THEN /\ last'.resp \in Responses /\ last'.resp.retry_after = None
                /\ (last'.resp.ok \/ IgnoredError(last'.resp))
                     => /\ last'.result = "Ok"
                        /\ queue' = queue /\ retries' = retries
                        /\ retry_at_key' = retry_at_key
           ELSE worker'[w].retry_after # None]_vars

C16_Witness ==
    /\ last.kind = "channel_edit" /\ last.result = "Ok"
    /\ IgnoredError(last.resp) /\ last.resp.error_code = 403
    /\ \A job \in BagToSet(queue) : job.kind # "channel_edit"
    /\ \A k \in RetryKeys : retry_at_key[k] = None

\* C17: an edit answered with any other error without retry-after (a 429 without the value
\* among them) ends the run with an error: the handler enqueues nothing and writes no
\* marker; the queue's retry policy alone may hand the failed job out again
C17_OtherErrorsFail ==
    [][\A w \in Workers :
        (RunsEdit(w) /\ worker[w].pc = "request" /\ Steps(w))
        => IF worker'[w].pc = "idle"
           THEN /\ last'.resp \in Responses
                /\ OtherError(last'.resp)
                     => /\ last'.result = "Err"
                        /\ retry_at_key' = retry_at_key
                        /\ \/ queue' = queue /\ retries' = retries
                           \/ /\ queue' = queue (+) SetToBag({worker[w].job})
                              /\ retries' = retries + 1
           ELSE worker'[w].retry_after # None]_vars

C17_Witness ==
    /\ last.kind = "channel_edit" /\ last.result = "Err"
    /\ OtherError(last.resp) /\ last.resp.error_code = 429
    /\ retries > 0
    /\ \A k \in RetryKeys : retry_at_key[k] = None

\* the run ended on an error of the matcher or of the store
HardError(run) == run.path \in {"match_error", "sadd_error", "expire_error"}

\* C18: a run that ends on an error of match_image, of the set-add or of the expire
\* returns an error; neither that step nor an earlier step of the run enqueues a
\* channel_edit job (the queue's retry policy alone may hand the failed job out again)
C18_HardErrorsFail ==
    [][\A w \in Workers :
        (RunsUpdate(w) /\ worker[w].pc \in {"start", "match", "lock", "seen", "find_images",
                                            "similar", "sadd", "expire"} /\ Steps(w))
        => /\ Added("channel_edit") = {}
           /\ (worker'[w].pc = "idle" /\ HardError(last'))
                => /\ last'.id = worker[w].job.args[1].message_id
                   /\ last'.result = "Err"
                   /\ \/ queue' = queue /\ retries' = retries
                      \/ /\ queue' = queue (+) SetToBag({worker[w].job})
                         /\ retries' = retries + 1]_vars

C18_Witness ==
    /\ last.kind = "channel_update" /\ last.path = "expire_error" /\ last.result = "Err"
    /\ last.id = 3
    /\ group_sources[G2Key] # {} /\ group_expire[G2Key] = None
    /\ \A job \in BagToSet(queue) : job.kind = "channel_edit" => job.args[1].message_id # 3
    /\ \A r \in requests : r.request.message_id # 3

\* a resolved image of the post within 3 bits of the photo's fingerprint was downloaded
SimilarHit(m) ==
    \E i \in DOMAIN m.resolved :
        /\ m.resolved[i].fetch = "ok"
        /\ Cardinality((m.hash \ m.resolved[i].hash) \cup (m.resolved[i].hash \ m.hash)) <= 3

C20_LockFreeDuringSimilarity ==
    \A w \in Workers : Busy(w, "channel_update", "similar") => sites # w

\* the run is inside the section on the site loaders: the comparison of the post's links
\* with the matches, and the resolve call
InSitesSection(w) == RunsUpdate(w) /\ worker[w].pc \in {"seen", "find_images"}

\* C21: at most one job at a time is inside the section that compares the post's links
\* with the matches and resolves them on the shared site loaders, and that job is the
\* holder of the mutex
C21_SitesMutualExclusion ==
    \A v, w \in Workers :
        InSitesSection(v) /\ InSitesSection(w) => v = w /\ sites = w

C21_Witness ==
    /\ Busy("w1", "channel_update", "find_images") /\ sites = "w1"
    /\ Busy("w2", "channel_update", "lock")
    /\ Payload(worker["w1"].job).chat_id = "c2"
    /\ Payload(worker["w2"].job).message_id = 7

\* C22: an edit job reads and writes the marker of its own chat alone: the marker it
\* writes after a rate limit leaves the other chats' markers as they were, and it is
\* rescheduled by the pre-check only when its own chat's marker is in the future, whatever
\* the markers of the other chats hold
C22_BackoffIsChatScoped ==
    [][\A w \in Workers :
        (RunsEdit(w) /\ Steps(w))
        => LET own == <<"retry-at", worker[w].job.args[1].chat_id>>
           IN  /\ \A k \in RetryKeys \ {own} : retry_at_key'[k] = retry_at_key[k]
               /\ worker[w].pc = "start"
                    => IF retry_at_key[own] # None /\ retry_at_key[own] > now
                       THEN worker'[w].pc = "reschedule"
                       ELSE worker'[w].pc = "request"]_vars

C22_Witness ==
    /\ retry_at_key[<<"retry-at", "c1">>] # None /\ retry_at_key[<<"retry-at", "c1">>] > now
    /\ retry_at_key[<<"retry-at", "c2">>] = None
    /\ last.kind = "channel_edit" /\ last.id = 4 /\ last.path = "edited" /\ last.sent = 1
    /\ \E job \in BagToSet(queue) :
        job.kind = "channel_edit" /\ job.args[1].chat_id = "c1" /\ job.at > now

\* the URLs of the message's near matches, as a set
NearUrls(m) == {m.found[i].url : i \in Near(m)}

\* the step ends a set-add and expire of the run without an error
RecordSucceeds(w) ==
    /\ RunsUpdate(w) /\ worker[w].pc = "expire" /\ Steps(w)
    /\ ~(worker'[w].pc = "idle" /\ last'.result = "Err")

\* C23: when a set-add and expire on a group's key has succeeded, duplicate or not, the
\* key expires 300 s from then and holds the submitted URLs, so that until 300 s after the
\* most recent call each of them is reported as duplicate
C23_SlidingTTL ==
    [][\A w \in Workers :
        RecordSucceeds(w)
        => LET m == worker[w].job.args[1]
               own == <<"group-sources", m.media_group_id>>
           IN  /\ group_expire'[own] = now + 300
               /\ NearUrls(m) \subseteq group_sources'[own]]_vars

\* C24: the run of a message without media group makes no set-add and no expire: none of
\* its steps changes a group's set or expiry, and its duplicate check answers false at
\* once, so that the run goes on to enqueue
C24_StandaloneTouchesNoSet ==
    [][\A w \in Workers :
        (RunsUpdate(w) /\ worker[w].job.args[1].media_group_id = "none" /\ Steps(w))
        => /\ group_sources' = group_sources
           /\ group_expire' = group_expire
           /\ calls' = calls
           /\ worker[w].pc # "expire"
           /\ worker[w].pc = "sadd"
                => worker'[w].pc = "enqueue" /\ last' = last /\ queue' = queue]_vars

C24_Witness ==
    /\ last.kind = "channel_update" /\ last.id = 4 /\ last.path = "emitted"
    /\ Post(4).media_group_id = "none"
    /\ \A k \in GroupKeys : group_sources[k] = {} /\ group_expire[k] = None
    /\ \A w \in Workers : worker[w].pc = "idle"

\* C25: has_similar_hash answers true exactly when a candidate that was downloaded and
\* decoded lies within 3 bits of the target; a candidate that failed counts for nothing,
\* whatever its bytes, and candidates that all failed give false
C25_SimilarIffFetchedHit ==
    Asked("has_similar_hash")
    => LET to == probe.args[1]
           candidates == probe.args[2]
       IN  probe.result
           <=> \E i \in DOMAIN candidates :
                   /\ candidates[i].fetch = "ok"
                   /\ Cardinality((to \ candidates[i].hash) \cup (candidates[i].hash \ to)) <= 3

C25_Witness ==
    /\ Asked("has_similar_hash")
    /\ Len(probe.args[2]) = 3
    /\ probe.args[2][1].fetch = "failed" /\ probe.args[2][1].hash = probe.args[1]
    /\ probe.args[2][2].fetch = "undecodable" /\ probe.args[2][2].hash = {1, 2, 3, 4, 5}
    /\ probe.args[2][3].fetch = "ok" /\ probe.args[2][3].hash = {1, 2, 3, 4, 5, 6}
    /\ probe.result = FALSE

\* the places of the list whose match has a distance, and one of at most 3
Kept(found) == {i \in DOMAIN found : found[i].distance # None /\ found[i].distance <= 3}

\* the k-th place of the set, counted from the lowest
Nth(places, k) == CHOOSE i \in places : Cardinality({j \in places : j < i}) = k - 1

\* C26: the filter keeps exactly the matches that have a distance of at most 3, in the
\* order they had; a match without distance is removed
C26_RetainKeepsNear ==
    Asked("retain")
    => LET found == probe.args[1]
       IN  /\ Len(probe.result) = Cardinality(Kept(found))
           /\ \A k \in DOMAIN probe.result : probe.result[k] = found[Nth(Kept(found), k)]

C26_Witness ==
    /\ Asked("retain")
    /\ probe.args[1] = <<File("FurAffinity", 2, 3), File("FurAffinity", 1, None),
                         File("FurAffinity", 1, 4)>>
    /\ probe.result = <<File("FurAffinity", 2, 3)>>

\* the place of a site in the fixed priority order
Priority(site) ==
    CASE site = "FurAffinity" -> 1 [] site = "Weasyl" -> 2 [] site = "e621" -> 3 [] OTHER -> 4

\* C27: the firsts of an edit job hold one entry for each site that has a match left by
\* the filter, that entry is a match of the site with the lowest distance, and the entries
\* stand in the fixed order of the sites
C27_FirstOfEachSite ==
    Asked("firsts")
    => LET found == probe.args[1]
           firsts == probe.result
       IN  /\ {firsts[k][1] : k \in DOMAIN firsts} = {found[i].site : i \in Kept(found)}
           /\ \A k, l \in DOMAIN firsts : k < l => Priority(firsts[k][1]) < Priority(firsts[l][1])
           /\ \A k \in DOMAIN firsts :
                \E i \in Kept(found) :
                    /\ found[i].site = firsts[k][1] /\ found[i].url = firsts[k][2]
                    /\ \A j \in Kept(found) :
                        found[j].site = found[i].site => found[i].distance <= found[j].distance

C27_Witness ==
    /\ Asked("firsts")
    /\ probe.args[1] = <<File("e621", 1, 1), File("FurAffinity", 1, 5),
                         File("FurAffinity", 2, 2)>>
    /\ probe.result = <<<<"FurAffinity", 2>>, <<"e621", 1>>>>

\* the URLs of the firsts, in their order, a newline between each two
Joined(firsts, text) ==
    /\ Len(text) = (IF firsts = <<>> THEN 0 ELSE 2 * Len(firsts) - 1)
    /\ \A k \in DOMAIN firsts : text[2 * k - 1] = firsts[k][2]
    /\ \A k \in DOMAIN text : k % 2 = 0 => text[k] = 0

\* requests the step sends
Sent(w) == IF worker'[w].pc = "idle" THEN last'.sent ELSE worker'[w].sent

\* C28: an edit attempt sends one request, of the kind its payload fixes: with a media
\* group a caption edit, the caption being the URLs of the firsts joined by newlines in
\* their order, and without one a reply-markup edit that carries no caption
C28_OneRequestOfPayloadKind ==
    [][\A w \in Workers :
        (RunsEdit(w) /\ worker[w].pc = "request" /\ Steps(w))
        => LET data == worker[w].job.args[1]
           IN  /\ Sent(w) = worker[w].sent + 1
               /\ \E r \in requests' :
                    /\ requests' = requests \cup {r}
                    /\ r.request.chat_id = data.chat_id
                    /\ r.request.message_id = data.message_id
                    /\ IF data.media_group_id # "none"
                       THEN /\ r.request.method = "editMessageCaption"
                            /\ Joined(data.firsts, r.request.caption)
                            /\ r.request.reply_markup = <<>>
                       ELSE /\ r.request.method = "editMessageReplyMarkup"
                            /\ r.request.caption = <<>>]_vars

C28_Witness ==
    /\ last.kind = "channel_edit" /\ last.id = 1 /\ last.sent = 1
    /\ \E r \in requests :
        /\ r.request.message_id = 1 /\ r.request.method = "editMessageCaption"
        /\ r.request.caption = <<1, 0, 2>>
    /\ \A r \in requests : r.request.message_id = 1 => r.request.method = "editMessageCaption"

\* C29: the keyboard of a standalone message with n firsts has n/2 rows of two buttons
\* when n is even and n rows of one button when n is odd, and its rows, read left to
\* right and top to bottom, hold the buttons (site as text, and URL) in the firsts' order
C29_KeyboardLayout ==
    Asked("keyboard")
    => LET firsts == probe.args[4]
           rows == probe.result
           n == Len(firsts)
           width == IF n % 2 = 0 THEN 2 ELSE 1
       IN  /\ Len(rows) = n \div width
           /\ \A r \in DOMAIN rows :
                /\ Len(rows[r]) = width
                /\ \A c \in 1..width :
                    /\ rows[r][c].text = firsts[width * (r - 1) + c][1]
                    /\ rows[r][c].url = firsts[width * (r - 1) + c][2]

C29_Witness ==
    /\ Asked("keyboard")
    /\ probe.args[4] = <<<<"FurAffinity", 1>>, <<"e621", 2>>, <<"e621", 1>>>>
    /\ probe.result = <<<<[text |-> "FurAffinity", url |-> 1]>>,
                        <<[text |-> "e621", url |-> 2]>>,
                        <<[text |-> "e621", url |-> 1]>>>>

\* the step is a set-add of the run that the store accepts
SetAdds(w) == RunsUpdate(w) /\ worker[w].pc = "sadd" /\ worker'[w].pc = "expire"

\* the URLs of the (site, url) pairs of a firsts list
FirstsUrls(firsts) == {firsts[i][2] : i \in DOMAIN firsts}

\* C30 as stated: a run's set-add puts into the group's set the distinct URLs of all the
\* matches that passed the distance filter, and a message of the group whose set-add
\* comes after a run of the group that emitted with one of these URLs is reported
\* duplicate
C30_AllNearUrlsRecorded ==
    [][\A w \in Workers :
        SetAdds(w)
        => LET m == [worker[w].job.args[1] EXCEPT !.found = worker[w].found]
               own == <<"group-sources", m.media_group_id>>
           IN  /\ group_sources'[own] = group_sources[own] \cup NearUrls(m)
               /\ worker'[w].source_count = Cardinality(NearUrls(m))
               /\ (/\ last.kind = "channel_update" /\ last.path = "emitted"
                   /\ Post(last.id).media_group_id = m.media_group_id
                   /\ Overlap(NearUrls(Post(last.id)), NearUrls(m)))
                    => worker'[w].source_count > worker'[w].added_links]_vars

\* C30 amended: a run's set-add puts into the group's set the distinct URLs of all the
\* matches that passed the distance filter, and it is reported duplicate when it shares
\* one URL with an earlier set-add of the group made during the same life of the key
C30_AllNearUrlsRecordedPerKeyLife ==
    [][\A w \in Workers :
        SetAdds(w)
        => LET m == [worker[w].job.args[1] EXCEPT !.found = worker[w].found]
               own == <<"group-sources", m.media_group_id>>
           IN  /\ group_sources'[own] = group_sources[own] \cup NearUrls(m)
               /\ worker'[w].source_count = Cardinality(NearUrls(m))
               /\ (\E i \in DOMAIN calls[own] : Overlap(calls[own][i].urls, NearUrls(m)))
                    => worker'[w].source_count > worker'[w].added_links]_vars

\* message 2 recorded URL 1, which is not among its firsts, and message 1, which shares
\* only that URL with it, was then skipped as a group duplicate
C30_Witness ==
    /\ Len(calls[G1Key]) = 2
    /\ calls[G1Key][1].id = 2 /\ calls[G1Key][1].urls = {1, 3, 5}
    /\ ~(1 \in FirstsUrls(Firsts(Matches(Post(2)))))
    /\ calls[G1Key][2].id = 1 /\ calls[G1Key][2].had
    /\ calls[G1Key][1].urls \cap calls[G1Key][2].urls = {1}
    /\ last.kind = "channel_update" /\ last.id = 1 /\ last.path = "group_duplicate"

\* the worker runs a job that carries no argument
RunsBare(w) == worker[w].job.kind # "none" /\ worker[w].job.args = <<>>

\* C31: a channel_update or channel_edit job without argument fails with MissingData at
\* its first step: no matcher call, no store access, no platform request and no enqueue
\* by the handler comes before (the queue may deliver the failed job again)
C31_NoArgsFails ==
    [][\A w \in Workers :
        /\ RunsBare(w) => worker[w].pc = "start"
        /\ (RunsBare(w) /\ Steps(w))
            => /\ worker'[w] = Idle
               /\ last' = [kind |-> worker[w].job.kind, id |-> 0, path |-> "missing_data",
                           result |-> "Err", sent |-> 0, resp |-> NoResponse]
               /\ UNCHANGED <<group_sources, group_expire, retry_at_key, calls, sites,
                              requests, now, lost>>
               /\ queue' \in {queue, Enqueue(queue, worker[w].job)}]_vars

C31_Witness ==
    /\ last.kind = "channel_edit" /\ last.id = 0
    /\ last.path = "missing_data" /\ last.result = "Err"
    /\ retries = 1
    /\ BagIn(BareJob("channel_edit"), queue)

\* the places of the candidates whose image is fetched, decoded and within 3 bits
Hits(to, candidates) ==
    {i \in DOMAIN candidates :
        /\ candidates[i].fetch = "ok"
        /\ Cardinality((to \ candidates[i].hash) \cup (candidates[i].hash \ to)) <= 3}

\* the list runs through the places from 1 to n, in order
Upto(list, n) == Len(list) = n /\ \A k \in 1..n : list[k] = k

\* C32: has_similar_hash takes the candidates in list order and stops at the first hit:
\* it downloads the candidates up to the first one within 3 bits and none after it, it
\* hashes only downloaded ones, and it answers true exactly when there is a hit
C32_StopsAtFirstHit ==
    Asked("scan")
    => LET to == probe.args[1]
           candidates == probe.args[2]
           hits == Hits(to, candidates)
           stop == IF hits = {} THEN Len(candidates)
                   ELSE CHOOSE i \in hits : \A j \in hits : i <= j
           scan == probe.result
       IN  /\ scan.hit <=> hits # {}
           /\ Upto(scan.downloaded, stop)
           /\ \A k \in DOMAIN scan.hashed : scan.hashed[k] <= stop
           /\ \A k \in DOMAIN scan.hashed : candidates[scan.hashed[k]].fetch = "ok"
           /\ scan.hit = HasSimilarHash(to, candidates)

C32_Witness ==
    /\ Asked("scan")
    /\ Len(probe.args[2]) = 3
    /\ probe.args[2][1] = Fetched(9, "failed", {1, 2})
    /\ probe.args[2][2] = Fetched(9, "ok", {1, 2, 3, 4, 5})
    /\ probe.args[2][3] = Fetched(9, "ok", {1, 2})
    /\ probe.result = [hit |-> TRUE, downloaded |-> <<1, 2>>, hashed |-> <<2>>]

\* C33: an error answer that carries a retry-after is taken by the rate-limit arm
\* whatever its error code, 400 and 403 included; the two arms that drop the job take
\* only answers without retry-after
C33_RetryAfterFirst ==
    Asked("classify")
    => LET resp == probe.args[1]
       IN  /\ (~resp.ok /\ resp.retry_after # None) => probe.result = "rate_limited"
           /\ probe.result \in {"ignored_400", "ignored_403"}
                => /\ resp.retry_after = None
                   /\ resp.error_code = (IF probe.result = "ignored_400" THEN 400 ELSE 403)

C33_Witness ==
    /\ Asked("classify")
    /\ probe.args[1] = Response(FALSE, 403, 150)
    /\ probe.result = "rate_limited"

\* the positions of a run ahead of its set-add
BeforeSadd == {"start", "match", "lock", "seen", "find_images", "similar"}

\* the ways a run ends at the no-photo, no-candidates, self-sourced and similar-hash gates
GateStops == {"no_photo", "no_match", "match_timeout", "self_sourced", "similar"}

\* C34: the steps of a pipeline run ahead of its set-add change no group set and no
\* expiry, a run that stops at the no-photo, no-candidates, self-sourced or similar-hash
\* gate stops ahead of its set-add, and no run comes back to these steps after it
C34_GateStopsLeaveStore ==
    [][\A w \in Workers :
        (RunsUpdate(w) /\ Steps(w))
        => /\ worker[w].pc \in BeforeSadd
                => /\ group_sources' = group_sources
                   /\ group_expire' = group_expire
           /\ (worker'[w].pc = "idle" /\ last'.path \in GateStops)
                => worker[w].pc \in BeforeSadd
           /\ worker[w].pc \notin BeforeSadd => worker'[w].pc \notin BeforeSadd]_vars

C34_Witness ==
    /\ last.kind = "channel_update" /\ last.id = 11 /\ last.path = "no_match"
    /\ Post(11).media_group_id = "g2"
    /\ \A k \in GroupKeys : group_sources[k] = {} /\ group_expire[k] = None
    /\ \A w \in Workers : worker[w].pc = "idle"

\* C35: a set-add puts the submitted URLs into the group's set next to what it held,
\* whether it reports a duplicate or not, and when the call that made it has succeeded
\* the set holds them, so that they count against later messages of the group
C35_SetIsUnion ==
    [][\A w \in Workers :
        LET m == [worker[w].job.args[1] EXCEPT !.found = worker[w].found]
            own == <<"group-sources", m.media_group_id>>
        IN  /\ SetAdds(w) => group_sources'[own] = group_sources[own] \cup NearUrls(m)
            /\ RecordSucceeds(w) => NearUrls(m) \subseteq group_sources'[own]]_vars

\* a run stands between its set-add and its expire on the key
Recording(k) ==
    \E w \in Workers :
        /\ RunsUpdate(w) /\ worker[w].pc = "expire"
        /\ k = <<"group-sources", worker[w].job.args[1].media_group_id>>

\* C36: a group key that exists, no run standing between its set-add and its expire on
\* it, has an expiry, at most 300 s ahead; the state after a run that failed between the
\* two is among those
C36_EveryKeyHasTTL ==
    \A k \in GroupKeys :
        (group_sources[k] # {} /\ ~Recording(k))
        => group_expire[k] # None /\ group_expire[k] <= now + 300

\* the channel_edit jobs of a message that are alive: pending in the queue or running
EditLoad(q, wk, id) ==
    BagCardinality([job \in {j \in BagToSet(q) :
                                j.kind = "channel_edit" /\ j.args[1].message_id = id} |-> q[job]])
    + Cardinality({v \in Workers :
                     wk[v].job.kind = "channel_edit" /\ wk[v].job.args[1].message_id = id})

\* C37: a run of process_channel_edit enqueues at most one job, and only when it
\* re-schedules at the backoff pre-check or after a rate limit, the run ending Ok with
\* that step; a failed run may be handed out again by the queue; so the steps of an edit
\* run never raise the number of live channel_edit jobs of its message
C37_EditEnqueuesAtMostOne ==
    [][\A w \in Workers :
        (RunsEdit(w) /\ Steps(w))
        => LET id == worker[w].job.args[1].message_id
           IN  /\ EditLoad(queue', worker', id) <= EditLoad(queue, worker, id)
               /\ queue' # queue
                    => /\ worker'[w].pc = "idle"
                       /\ \/ /\ worker[w].pc \in {"reschedule", "enqueue"}
                             /\ last'.result = "Ok"
                             /\ \E job \in BagToSet(queue') :
                                  /\ job.kind = "channel_edit"
                                  /\ queue' = queue (+) SetToBag({job})
                          \/ /\ last'.result = "Err"
                             /\ queue' = queue (+) SetToBag({worker[w].job})]_vars

C37_Witness ==
    /\ last.kind = "channel_edit" /\ last.path = "rescheduled" /\ last.result = "Ok"
    /\ EditLoad(queue, worker, last.id) = 1
    /\ \A w \in Workers : worker[w].pc = "idle"
    /\ rate_limits = 1

\* C38: a write of a chat's backoff marker made while the marker holds an instant still
\* ahead of the clock never puts an earlier instant in its place
C38_MarkerNeverMovesBack ==
    [][\A k \in RetryKeys :
        (retry_at_key[k] # None /\ retry_at_key[k] > now /\ retry_at_key'[k] # retry_at_key[k])
        => retry_at_key'[k] >= retry_at_key[k]]_vars

\* C39: the site-loader lock is held only by a pipeline run that stands between taking
\* it and its group check: a run that has returned, by any path, or failed, a run in its
\* set-add, expire or enqueue, and an edit run do not hold it, and each step that ends a
\* run or leads it to the set-add leaves the lock free of that worker
C39_LockReleasedOnEveryPath ==
    [][\A w \in Workers :
        /\ sites = w => RunsUpdate(w) /\ worker[w].pc \in {"seen", "find_images", "similar"}
        /\ (sites = w /\ Steps(w) /\ worker'[w].pc \in {"idle", "sadd"}) => sites' = "free"
        /\ worker'[w].pc \in {"idle", "sadd", "expire", "enqueue"} => sites' # w]_vars

C39_Witness ==
    /\ Busy("w1", "channel_update", "sadd") /\ Payload(worker["w1"].job).message_id = 6
    /\ Busy("w2", "channel_update", "seen") /\ Payload(worker["w2"].job).message_id = 7
    /\ sites = "w2"
    /\ last.kind = "none"

\* a login request is sent only by get_sid, and only when no session id is cached
LoginOnlyWithoutSid ==
    [][(inkbunny.pc # "login" /\ inkbunny'.pc = "login")
        => (inkbunny.pc = "get_sid" /\ inkbunny.sid = NoSid)]_vars

\* C40: every call of get_submissions returns: after finitely many expired-session
\* answers, each followed by a new login and a retry, the call ends with a result, an error
\* or a panic
C40_GetSubmissionsTerminates == (inkbunny.pc # "idle") ~> (inkbunny.pc = "idle")

====
